---- MODULE Spec2Model ----
(***************************************************************************)
(* Model of hcp/io/read.py (mne-hcp): the text parsers of the HCP MEG      *)
(* pipeline dumps (transform store, bad channels, bad segments, ICA        *)
(* classes) and the anatomy extraction pipeline extract_anatomy.           *)
(*                                                                         *)
(* A Python str is a sequence of one-character strings.  A Python dict is  *)
(* a function whose domain is its key set.  A float is a fixed-point       *)
(* integer with denominator Scale (1.0 is Scale, 1e-3 is MilliToMeter);    *)
(* every product the code forms on the modelled inputs is exact in it.     *)
(* A call that raises has status the name of the exception.                *)
(*                                                                         *)
(* read.py calls get_file_maps, _recursive_create_dir, _write_target and   *)
(* _zip_get_fnames without defining or importing them; they are taken to   *)
(* be the I/O helpers their names say and to succeed: the subject's        *)
(* records and the archive members they find are inputs.                   *)
(***************************************************************************)
EXTENDS Integers, Sequences, FiniteSets, TLC

VARIABLES fn, contents, trans_ret, annot_ret,
          subject_kind, records, n_ras, ras_text, head_mat,
          pc, raised, ras_trans, hcp_trans, pnts, faces, head_mri_t, written

vars == <<fn, contents, trans_ret, annot_ret,
          subject_kind, records, n_ras, ras_text, head_mat,
          pc, raised, ras_trans, hcp_trans, pnts, faces, head_mri_t, written>>

(***************************************************************************)
(* Bounds of the model.                                                    *)
(***************************************************************************)
\* statements per generated input file
MaxStmts == 2
\* non-empty archive members whose name ends in 'c_ras.mat'
MaxRasFiles == 2

(***************************************************************************)
(* Python str primitives.                                                  *)
(***************************************************************************)
Digits == {"0", "1", "2", "3", "4", "5", "6", "7", "8", "9"}
Letters == {"a", "b", "c", "d", "e", "f", "g", "h", "i", "j", "k", "l", "m",
            "n", "o", "p", "q", "r", "s", "t", "u", "v", "w", "x", "y", "z",
            "A", "B", "C", "D", "E", "F", "G", "H", "I", "J", "K", "L", "M",
            "N", "O", "P", "Q", "R", "S", "T", "U", "V", "W", "X", "Y", "Z"}
Whitespace == {" ", "\n", "\t"}

\* s[i:].startswith(p)
StartsWithAt(s, p, i) ==
    /\ i + Len(p) - 1 <= Len(s)
    /\ \A k \in 1..Len(p) : s[i + k - 1] = p[k]

\* p in s
StrContains(s, p) == \E i \in 1..(Len(s) + 1) : StartsWithAt(s, p, i)

SetMin(S) == CHOOSE x \in S : \A y \in S : x <= y
SetMax(S) == CHOOSE x \in S : \A y \in S : x >= y

\* s.find(p, i), 1-based, 0 when p is not found
FindFrom(s, p, i) ==
    LET hits == {j \in i..Len(s) : StartsWithAt(s, p, j)}
    IN IF hits = {} THEN 0 ELSE SetMin(hits)

RECURSIVE SplitFrom(_, _, _)
SplitFrom(s, sep, i) ==
    LET j == FindFrom(s, sep, i) IN
    IF j = 0 THEN <<SubSeq(s, i, Len(s))>>
    ELSE <<SubSeq(s, i, j - 1)>> \o SplitFrom(s, sep, j + Len(sep))

\* s.split(sep), sep a non-empty str: the matches of sep from left to right
StrSplit(s, sep) == SplitFrom(s, sep, 1)

RECURSIVE SplitWsFrom(_, _)
SplitWsFrom(s, i) ==
    LET black == {j \in i..Len(s) : s[j] \notin Whitespace} IN
    IF black = {} THEN <<>>
    ELSE LET b == SetMin(black)
             white == {j \in b..Len(s) : s[j] \in Whitespace}
         IN IF white = {} THEN <<SubSeq(s, b, Len(s))>>
            ELSE <<SubSeq(s, b, SetMin(white) - 1)>>
                 \o SplitWsFrom(s, SetMin(white) + 1)

\* s.split(): runs of whitespace separate, no empty token
StrSplitWs(s) == SplitWsFrom(s, 1)

\* s.replace(c, ''), c one character
StrRemove(s, c) == SelectSeq(s, LAMBDA x : x # c)

\* s.lstrip(chars): drops the leading characters that are in the set chars
StrLStrip(s, chars) ==
    LET kept == {j \in 1..Len(s) : s[j] \notin chars}
    IN IF kept = {} THEN <<>> ELSE SubSeq(s, SetMin(kept), Len(s))

\* s.rstrip(chars)
StrRStrip(s, chars) ==
    LET kept == {j \in 1..Len(s) : s[j] \notin chars}
    IN IF kept = {} THEN <<>> ELSE SubSeq(s, 1, SetMax(kept))

\* s.strip(chars)
StrStrip(s, chars) == StrRStrip(StrLStrip(s, chars), chars)

\* s.isdigit()
IsDigitStr(s) == s # <<>> /\ \A k \in 1..Len(s) : s[k] \in Digits

\* s.isalnum()
IsAlnumStr(s) == s # <<>> /\ \A k \in 1..Len(s) : s[k] \in Digits \cup Letters

DigitVal(c) ==
    CASE c = "0" -> 0 [] c = "1" -> 1 [] c = "2" -> 2 [] c = "3" -> 3
      [] c = "4" -> 4 [] c = "5" -> 5 [] c = "6" -> 6 [] c = "7" -> 7
      [] c = "8" -> 8 [] c = "9" -> 9

RECURSIVE StrToNat(_)
\* int(s) for s.isdigit()
StrToNat(s) ==
    IF s = <<>> THEN 0
    ELSE 10 * StrToNat(SubSeq(s, 1, Len(s) - 1)) + DigitVal(s[Len(s)])

\* float(s) succeeds; over the alphabet of the generated files (digits,
\* letters of the keys, sign, brackets, quote, blank, newline) the accepted
\* literals are the optionally signed digit strings
IsNumLit(s) ==
    /\ s # <<>>
    /\ IsDigitStr(IF Head(s) \in {"-", "+"} THEN Tail(s) ELSE s)

StrToInt(s) ==
    IF Head(s) = "-" THEN 0 - StrToNat(Tail(s))
    ELSE IF Head(s) = "+" THEN StrToNat(Tail(s)) ELSE StrToNat(s)

\* d[key] = val on a dict
DictPut(d, key, val) ==
    [k \in DOMAIN d \cup {key} |-> IF k = key THEN val ELSE d[k]]

EmptyDict == [k \in {} |-> 0]

(***************************************************************************)
(* Fixed point.                                                            *)
(***************************************************************************)
Scale == 1000
\* the factor 1e-3 (mm to m)
MilliToMeter == 1

FixMul(a, b) == (a * b) \div Scale

(***************************************************************************)
(* Transform store: _parse_trans, _parse_hcp_trans, read_trans_hcp.        *)
(***************************************************************************)
S_eq == <<" ", "=", " ">>
S_filename == <<"f", "i", "l", "e", "n", "a", "m", "e">>
\* the characters of the argument of key.lstrip('\ntransform.')
LStripChars == {"\n", "t", "r", "a", "n", "s", "f", "o", "m", "."}
\* the characters of the argument of .strip('[] ')
StripChars == {"[", "]", " "}

Reshape44(v) == [i \in 1..4 |-> [j \in 1..4 |-> v[4 * (i - 1) + j]]]

\* np.array(tokens, dtype=float).reshape(4, 4)
_parse_trans(string) ==
    LET toks == StrSplit(StrStrip(StrRemove(string, "\n"), StripChars), <<" ">>)
    IN IF (\E k \in 1..Len(toks) : ~IsNumLit(toks[k])) \/ Len(toks) # 16
       THEN [err |-> "ValueError", val |-> <<>>]
       ELSE [err |-> "none",
             val |-> Reshape44([k \in 1..16 |-> StrToInt(toks[k]) * Scale])]

\* the slip m[:, 3] *= 1e-3: the whole last column, bottom row included
ScaleTranslation_WholeColumn(m) ==
    [i \in 1..4 |-> [j \in 1..4 |->
        IF j = 4 THEN FixMul(m[i][j], MilliToMeter) ELSE m[i][j]]]

\* m[:3, 3] *= 1e-3
ScaleTranslation(m) ==
    [i \in 1..4 |-> [j \in 1..4 |->
        IF i <= 3 /\ j = 4 THEN FixMul(m[i][j], MilliToMeter) ELSE m[i][j]]]

\* the statement key as stored in the table
TransKey(key) == StrLStrip(key, LStripChars)

\* the branch `continue` of the loop of _parse_hcp_trans
TransSkipped(trans) == StrContains(trans, S_filename) \/ trans = <<"\n">>

RECURSIVE ParseHcpTransLoop(_, _, _)
ParseHcpTransLoop(frags, transforms, convert_to_meter) ==
    IF frags = <<>> THEN [err |-> "none", transforms |-> transforms]
    ELSE LET trans == Head(frags) IN
         IF TransSkipped(trans)
         THEN ParseHcpTransLoop(Tail(frags), transforms, convert_to_meter)
         ELSE LET parts == StrSplit(trans, S_eq) IN
              IF Len(parts) # 2
              THEN [err |-> "ValueError", transforms |-> transforms]
              ELSE LET key == TransKey(parts[1])
                       m == _parse_trans(parts[2])
                   IN IF m.err # "none"
                      THEN [err |-> m.err, transforms |-> transforms]
                      ELSE ParseHcpTransLoop(
                               Tail(frags),
                               DictPut(transforms, key,
                                       IF convert_to_meter
                                       THEN ScaleTranslation(m.val)
                                       ELSE m.val),
                               convert_to_meter)

\* the dict `transforms` after the call, and the exception it ended in
_parse_hcp_trans(text, transforms, convert_to_meter) ==
    LET r == ParseHcpTransLoop(StrSplit(text, <<";">>), transforms,
                               convert_to_meter)
    IN IF r.err = "none" /\ DOMAIN r.transforms = {}
       THEN [err |-> "RuntimeError", transforms |-> r.transforms]
       ELSE r

read_trans_hcp(text, convert_to_meter) ==
    LET r == _parse_hcp_trans(text, EmptyDict, convert_to_meter)
    IN [status |-> IF r.err = "none" THEN "ok" ELSE r.err,
        val |-> IF r.err = "none" THEN r.transforms ELSE EmptyDict]

(***************************************************************************)
(* Annotation parsers.                                                     *)
(***************************************************************************)
\* the branch `continue` shared by the three loops
AnnotSkipped(entry) == Len(entry) = 1 \/ entry = <<"\n">>

\* key.split('.')[1]
AnnotKey(key) == StrSplit(key, <<".">>)[2]
AnnotKeyFails(key) == Len(StrSplit(key, <<".">>)) < 2

\* [e.split(' ') for e in rest.split() if e.replace(' ', '').isdigit()]
SegmentTokens(rest) ==
    SelectSeq(StrSplitWs(rest), LAMBDA e : IsDigitStr(StrRemove(e, " ")))

\* np.array(tokens, dtype=int).reshape(-1, 2) - 1, of an even number of
\* tokens (no generated file yields a statement with no token at all)
SegmentPairs(toks) ==
    [i \in 1..(Len(toks) \div 2) |->
        <<StrToNat(toks[2 * i - 1]) - 1, StrToNat(toks[2 * i]) - 1>>]

RECURSIVE SegmentsLoop(_, _)
SegmentsLoop(split, out) ==
    IF split = <<>> THEN [status |-> "ok", val |-> out]
    ELSE LET entry == Head(split) IN
         IF AnnotSkipped(entry) THEN SegmentsLoop(Tail(split), out)
         ELSE LET parts == StrSplit(entry, S_eq) IN
              IF Len(parts) # 2 THEN [status |-> "ValueError", val |-> EmptyDict]
              ELSE LET toks == SegmentTokens(parts[2]) IN
                   IF Len(toks) % 2 # 0
                   THEN [status |-> "ValueError", val |-> EmptyDict]
                   ELSE IF AnnotKeyFails(parts[1])
                   THEN [status |-> "IndexError", val |-> EmptyDict]
                   ELSE SegmentsLoop(Tail(split),
                            DictPut(out, AnnotKey(parts[1]), SegmentPairs(toks)))

_parse_annotations_segments(segment_strings) ==
    SegmentsLoop(StrSplit(segment_strings, <<";">>), EmptyDict)

\* [ch for ch in rest.split("'") if ch.isalnum()]
BadChannelsValue(rest) == SelectSeq(StrSplit(rest, <<"'">>), IsAlnumStr)

RECURSIVE BadChannelsLoop(_, _)
BadChannelsLoop(split, out) ==
    IF split = <<>> THEN [status |-> "ok", val |-> out]
    ELSE LET entry == Head(split) IN
         IF AnnotSkipped(entry) THEN BadChannelsLoop(Tail(split), out)
         ELSE LET parts == StrSplit(entry, S_eq) IN
              IF Len(parts) # 2 THEN [status |-> "ValueError", val |-> EmptyDict]
              ELSE IF AnnotKeyFails(parts[1])
              THEN [status |-> "IndexError", val |-> EmptyDict]
              ELSE BadChannelsLoop(Tail(split),
                       DictPut(out, AnnotKey(parts[1]),
                               BadChannelsValue(parts[2])))

_parse_annotations_bad_channels(bads_strings) ==
    BadChannelsLoop(StrSplit(bads_strings, <<";">>), EmptyDict)

\* an element of an ICA list: int(ch) if ch.isdigit() else ch
IcaInt(n) == [kind |-> "int", int |-> n, str |-> <<>>]
IcaStr(ch) == [kind |-> "str", int |-> 0, str |-> ch]
IcaElement(ch) == IF IsDigitStr(ch) THEN IcaInt(StrToNat(ch)) ELSE IcaStr(ch)

\* the separator chosen from the presence of '[' in rest
IcaSep(rest) == IF StrContains(rest, <<"[">>) THEN <<" ">> ELSE <<"'">>

IcaValue(rest) ==
    LET kept == SelectSeq(StrSplit(rest, IcaSep(rest)), IsAlnumStr)
    IN [i \in 1..Len(kept) |-> IcaElement(kept[i])]

RECURSIVE IcaLoop(_, _)
IcaLoop(split, out) ==
    IF split = <<>> THEN [status |-> "ok", val |-> out]
    ELSE LET entry == Head(split) IN
         IF AnnotSkipped(entry) THEN IcaLoop(Tail(split), out)
         ELSE LET parts == StrSplit(entry, S_eq) IN
              IF Len(parts) # 2 THEN [status |-> "ValueError", val |-> EmptyDict]
              ELSE IF AnnotKeyFails(parts[1])
              THEN [status |-> "IndexError", val |-> EmptyDict]
              ELSE IcaLoop(Tail(split),
                       DictPut(out, AnnotKey(parts[1]), IcaValue(parts[2])))

_parse_annotations_ica(ica_strings) ==
    IcaLoop(StrSplit(ica_strings, <<";">>), EmptyDict)

(***************************************************************************)
(* The input files: texts written in the statement syntax of the HCP       *)
(* dumps, `<key> = <value>;`, from structured values.                      *)
(***************************************************************************)
DigitChar(d) ==
    CASE d = 0 -> "0" [] d = 1 -> "1" [] d = 2 -> "2" [] d = 3 -> "3"
      [] d = 4 -> "4" [] d = 5 -> "5" [] d = 6 -> "6" [] d = 7 -> "7"
      [] d = 8 -> "8" [] d = 9 -> "9"

RECURSIVE NatStr(_)
NatStr(n) ==
    IF n < 10 THEN <<DigitChar(n)>>
    ELSE NatStr(n \div 10) \o <<DigitChar(n % 10)>>

IntStr(n) == IF n < 0 THEN <<"-">> \o NatStr(0 - n) ELSE NatStr(n)

RECURSIVE Join(_, _)
Join(strs, sep) ==
    IF strs = <<>> THEN <<>>
    ELSE IF Len(strs) = 1 THEN strs[1]
    ELSE strs[1] \o sep \o Join(Tail(strs), sep)

SeqsUpTo(S, n) == UNION {[1..k -> S] : k \in 0..n}

\* every statement is closed by ';' and followed by gap
RECURSIVE RenderFile(_, _)
RenderFile(stmts, gap) ==
    IF stmts = <<>> THEN <<>>
    ELSE Head(stmts) \o <<";">> \o gap \o RenderFile(Tail(stmts), gap)

\* what follows a ';': nothing, or the end of the line
Gaps == {<<>>, <<"\n">>}

S_transform == <<"t", "r", "a", "n", "s", "f", "o", "r", "m", ".">>
K_bti2spm == <<"b", "t", "i", "2", "s", "p", "m">>
K_spm2mri == <<"s", "p", "m", "2", "m", "r", "i">>
K_mri2spm == <<"m", "r", "i", "2", "s", "p", "m">>
TransNames == {K_bti2spm, K_spm2mri, K_mri2spm}

\* a translation (the matrix of the documented example) and a rotation
\* about z with a translation
M_translation == <<<<1, 0, 0, 10>>, <<0, 1, 0, 20>>, <<0, 0, 1, 30>>, <<0, 0, 0, 1>>>>
M_rotation == <<<<0, -1, 0, 5>>, <<1, 0, 0, -7>>, <<0, 0, 1, 12>>, <<0, 0, 0, 1>>>>
TransMatrices == {M_translation, M_rotation}

\* the named matrices of a transform file; bti2spm occurs with both
\* matrices, so that a file can assign one name twice
TransEntries == {<<K_bti2spm, M_translation>>, <<K_bti2spm, M_rotation>>,
                 <<K_spm2mri, M_rotation>>, <<K_mri2spm, M_translation>>}

\* between two rows: a newline, or a blank and a newline
RowSeps == {<<"\n">>, <<" ", "\n">>}

RenderRow(row) == Join([j \in 1..Len(row) |-> IntStr(row[j])], <<" ">>)
RenderMatrix(m, rowsep) ==
    <<"[">> \o Join([i \in 1..Len(m) |-> RenderRow(m[i])], rowsep) \o <<"]">>
RenderTransStmt(name, m, rowsep) ==
    S_transform \o name \o S_eq \o RenderMatrix(m, rowsep)

TransStmts ==
    {RenderTransStmt(t[1][1], t[1][2], t[2]) : t \in TransEntries \X RowSeps}

FilenameStmt == <<"f", "i", "l", "e", "n", "a", "m", "e", " ", "=", " ", "'", "x", "'">>

TransTexts ==
    {<<"\n">>} \cup
    {RenderFile((IF t[3] THEN <<FilenameStmt>> ELSE <<>>) \o t[1], t[2]) :
        t \in SeqsUpTo(TransStmts, MaxStmts) \X Gaps \X BOOLEAN}

\* a fragment that is no statement: none, one blank, two blanks, a mark
NoiseFrags == {<<>>, <<" ">>, <<" ", " ">>, <<"#", "#">>}
WithNoise(noise, stmts) == IF noise = <<>> THEN stmts ELSE <<noise>> \o stmts

\* the key of the i-th statement of an annotation file
KeyAt(keys, i) == keys[((i - 1) % Len(keys)) + 1]

RenderAnnotFile(keys, values, Render(_), noise, gap) ==
    RenderFile(
        WithNoise(noise,
            [i \in 1..Len(values) |-> KeyAt(keys, i) \o S_eq \o Render(values[i])]),
        gap)

AnnotTexts(keys, Values, Render(_)) ==
    {RenderAnnotFile(keys, t[1], Render, t[2], t[3]) :
        t \in SeqsUpTo(Values, MaxStmts) \X NoiseFrags \X Gaps}

C_A1 == <<"A", "1">>
C_A2 == <<"A", "2">>
BadChannelsKeys == <<<<"b", "a", "d", "s", ".", "b", "a", "d", "c", "h", "a", "n", "n", "e", "l", "s">>, <<"b", "a", "d", "s", ".", "b", "a", "d", "s", "2">>>>
BadChannelsValues == {<<>>, <<C_A1>>, <<C_A1, C_A2>>, <<C_A2, C_A2, C_A1>>}
RenderBadChannels(names) ==
    <<"[">> \o Join([i \in 1..Len(names) |-> <<"'">> \o names[i] \o <<"'">>],
                    <<" ">>) \o <<"]">>
BadChannelsTexts == AnnotTexts(BadChannelsKeys, BadChannelsValues, RenderBadChannels)

SegmentsKeys == <<<<"b", "a", "d", "s", "e", "g", "m", "e", "n", "t", "s", ".", "b", "a", "d", "s", "e", "g", "m", "e", "n", "t">>, <<"b", "a", "d", "s", "e", "g", "m", "e", "n", "t", "s", ".", "i", "c", "a">>>>
SegmentsLists == {<<<<1, 10>>>>, <<<<1, 10>>, <<20, 30>>>>,
                  <<<<5, 5>>, <<7, 9>>, <<12, 20>>>>}
\* pairs separated by ';' inside the brackets, or one pair per line between
\* brackets that stand on lines of their own
SegmentsStyles == {"semicolon", "lines"}
SegmentsValues == [pairs : SegmentsLists, style : SegmentsStyles]
RenderPair(p) == IntStr(p[1]) \o <<" ">> \o IntStr(p[2])
RenderSegments(v) ==
    LET rows == [i \in 1..Len(v.pairs) |-> RenderPair(v.pairs[i])] IN
    IF v.style = "semicolon"
    THEN <<"[">> \o Join(rows, <<";", " ">>) \o <<"]">>
    ELSE <<"[", "\n">> \o Join(rows, <<"\n">>) \o <<"\n", "]">>
SegmentsTexts == AnnotTexts(SegmentsKeys, SegmentsValues, RenderSegments)

IcaKeys == <<<<"i", "c", "a", "c", "l", "a", "s", "s", ".", "b", "r", "a", "i", "n">>, <<"i", "c", "a", "c", "l", "a", "s", "s", ".", "e", "c", "g">>>>
IcaLists == {<<>>, <<1, 2, 3>>, <<4, 7>>}
\* indices between brackets, with or without a blank inside each bracket
IcaStyles == {"tight", "spaced"}
L_good == <<"g", "o", "o", "d">>
L_bad == <<"b", "a", "d">>
IcaLabelLists == {<<L_good, L_bad>>}
IcaValues ==
    [items : IcaLists, labels : {<<>>}, style : IcaStyles]
    \cup [items : {<<>>}, labels : IcaLabelLists, style : {"quoted"}]
RenderIca(v) ==
    IF v.style = "quoted"
    THEN Join([i \in 1..Len(v.labels) |-> <<"'">> \o v.labels[i] \o <<"'">>],
              <<" ">>)
    ELSE LET body == Join([i \in 1..Len(v.items) |-> IntStr(v.items[i])], <<" ">>)
         IN IF v.style = "tight" THEN <<"[">> \o body \o <<"]">>
            ELSE <<"[", " ">> \o body \o <<" ", "]">>
IcaTexts == AnnotTexts(IcaKeys, IcaValues, RenderIca)

(***************************************************************************)
(* Matrices of extract_anatomy and _get_head_model.                        *)
(***************************************************************************)
\* np.dot(a, b) of two 4x4 matrices
MatDot(a, b) ==
    [i \in 1..4 |-> [j \in 1..4 |->
        FixMul(a[i][1], b[1][j]) + FixMul(a[i][2], b[2][j])
        + FixMul(a[i][3], b[3][j]) + FixMul(a[i][4], b[4][j])]]

\* linalg.inv(m) of an affine matrix [R t; 0 0 0 1] whose block R is
\* orthogonal, which the RAS matrices of the model are: [R^T  -R^T t; 0 0 0 1]
MatInv(m) ==
    [i \in 1..4 |-> [j \in 1..4 |->
        IF i = 4 THEN m[4][j]
        ELSE IF j <= 3 THEN m[j][i]
        ELSE 0 - (FixMul(m[1][i], m[1][4]) + FixMul(m[2][i], m[2][4])
                  + FixMul(m[3][i], m[3][4]))]]

\* mne.transforms.apply_trans(trans, pts): pts . R^T + t
ApplyTrans(trans, pts) ==
    [n \in 1..Len(pts) |-> [i \in 1..3 |->
        FixMul(trans[i][1], pts[n][1]) + FixMul(trans[i][2], pts[n][2])
        + FixMul(trans[i][3], pts[n][3]) + trans[i][4]]]

\* np.array([r.split() for r in text.split('\n') if r], dtype=np.float64)
ParseRas(text) ==
    LET lines == SelectSeq(StrSplit(text, <<"\n">>), LAMBDA r : r # <<>>)
        rows == [i \in 1..Len(lines) |-> StrSplitWs(lines[i])]
    IN IF \E i \in 1..Len(rows) :
              \/ Len(rows[i]) # Len(rows[1])
              \/ \E j \in 1..Len(rows[i]) : ~IsNumLit(rows[i][j])
       THEN [err |-> "ValueError", val |-> <<>>]
       ELSE [err |-> "none",
             val |-> [i \in 1..Len(rows) |-> [j \in 1..Len(rows[i]) |->
                         StrToInt(rows[i][j]) * Scale]]]

\* faces -= 1
CorrectFaces(f) == [n \in 1..Len(f) |-> [i \in 1..3 |-> f[n][i] - 1]]

\* pnts and faces returned by _get_head_model
_get_head_model(mat, trans_table, ras) ==
    [pnts |-> ApplyTrans(MatDot(MatInv(ras), trans_table[K_bti2spm]), mat.pnts),
     faces |-> CorrectFaces(mat.faces)]

(***************************************************************************)
(* Inputs of extract_anatomy.                                              *)
(***************************************************************************)
REC_STRUCTURAL == "3t-structural-preproc-extended"
REC_MEG == "meg-anatomy"

R_translation == <<<<1, 0, 0, 2>>, <<0, 1, 0, -3>>, <<0, 0, 1, 4>>, <<0, 0, 0, 1>>>>
R_rotation == <<<<0, 1, 0, 6>>, <<-1, 0, 0, 0>>, <<0, 0, 1, -8>>, <<0, 0, 0, 1>>>>
RasMatrices == {R_translation, R_rotation}
\* four lines of four numbers
RenderRas(m) ==
    Join([i \in 1..Len(m) |-> RenderRow(m[i])], <<"\n">>) \o <<"\n">>
RasTexts == {RenderRas(m) : m \in RasMatrices}

\* headmodel.bnd: points (fixed point) and 1-based faces
HeadMats ==
    {[pnts |-> <<<<10 * Scale, 0, 0>>, <<0, 20 * Scale, 0>>, <<0, 0, 30 * Scale>>>>,
      faces |-> <<<<1, 2, 3>>, <<3, 2, 1>>>>]}
NoHeadMat == [pnts |-> <<>>, faces |-> <<>>]

\* the transform file of the MEG anatomy archive
AnatTransTexts ==
    {<<"\n">>} \cup {RenderFile(<<t[1]>>, t[2]) : t \in TransStmts \X Gaps}

Unbound == [bound |-> FALSE, val |-> <<>>]
NotRaised == [type |-> "none", names_subject |-> FALSE]
NoTransform == [from |-> "", to |-> "", trans |-> <<>>]
Pending == [status |-> "pending", val |-> EmptyDict]

(***************************************************************************)
(* Initial states: one entry point is called on one input.                 *)
(***************************************************************************)
Annotators == {"_parse_annotations_bad_channels",
               "_parse_annotations_segments",
               "_parse_annotations_ica"}

AnatIdle ==
    /\ subject_kind = "none" /\ records = {} /\ n_ras = 0
    /\ ras_text = <<>> /\ head_mat = NoHeadMat /\ pc = "idle"

AnatLocalsFresh ==
    /\ raised = NotRaised /\ ras_trans = Unbound /\ hcp_trans = EmptyDict
    /\ pnts = <<>> /\ faces = <<>> /\ head_mri_t = NoTransform
    /\ written = {}

RetsFresh ==
    /\ trans_ret = [c \in BOOLEAN |-> Pending]
    /\ annot_ret = Pending

InitTrans ==
    /\ fn = "read_trans_hcp"
    /\ contents \in TransTexts
    /\ AnatIdle

InitAnnot ==
    /\ fn \in Annotators
    /\ contents \in (CASE fn = "_parse_annotations_bad_channels" -> BadChannelsTexts
                       [] fn = "_parse_annotations_segments" -> SegmentsTexts
                       [] fn = "_parse_annotations_ica" -> IcaTexts)
    /\ AnatIdle

InitAnat ==
    /\ fn = "extract_anatomy"
    /\ pc = "start"
    /\ subject_kind \in {"str", "dict", "other"}
    /\ records \in (IF subject_kind = "other" THEN {{}}
                    ELSE SUBSET {REC_STRUCTURAL, REC_MEG})
    /\ n_ras \in (IF REC_STRUCTURAL \in records THEN 0..MaxRasFiles ELSE {0})
    /\ ras_text \in (IF n_ras = 1 THEN RasTexts ELSE {<<>>})
    /\ contents \in (IF REC_MEG \in records THEN AnatTransTexts ELSE {<<>>})
    /\ head_mat \in (IF REC_MEG \in records THEN HeadMats ELSE {NoHeadMat})

Init ==
    /\ InitTrans \/ InitAnnot \/ InitAnat
    /\ RetsFresh
    /\ AnatLocalsFresh

(***************************************************************************)
(* The parsers, one call each.                                             *)
(***************************************************************************)
ReadTransHcp(convert_to_meter) ==
    /\ fn = "read_trans_hcp"
    /\ trans_ret[convert_to_meter].status = "pending"
    /\ trans_ret' = [trans_ret EXCEPT
                        ![convert_to_meter] =
                            read_trans_hcp(contents, convert_to_meter)]
    /\ UNCHANGED <<fn, contents, annot_ret, subject_kind, records, n_ras,
                   ras_text, head_mat, pc, raised, ras_trans, hcp_trans,
                   pnts, faces, head_mri_t, written>>

AnnotFrame ==
    UNCHANGED <<fn, contents, trans_ret, subject_kind, records, n_ras,
                ras_text, head_mat, pc, raised, ras_trans, hcp_trans,
                pnts, faces, head_mri_t, written>>

ParseAnnotationsBadChannels ==
    /\ fn = "_parse_annotations_bad_channels"
    /\ annot_ret.status = "pending"
    /\ annot_ret' = _parse_annotations_bad_channels(contents)
    /\ AnnotFrame

ParseAnnotationsSegments ==
    /\ fn = "_parse_annotations_segments"
    /\ annot_ret.status = "pending"
    /\ annot_ret' = _parse_annotations_segments(contents)
    /\ AnnotFrame

ParseAnnotationsIca ==
    /\ fn = "_parse_annotations_ica"
    /\ annot_ret.status = "pending"
    /\ annot_ret' = _parse_annotations_ica(contents)
    /\ AnnotFrame

(***************************************************************************)
(* extract_anatomy, step by step.                                          *)
(***************************************************************************)
Raise(type, names_subject) ==
    /\ pc' = "raised"
    /\ raised' = [type |-> type, names_subject |-> names_subject]

AnatInputs == <<fn, contents, trans_ret, annot_ret, subject_kind, records,
                n_ras, ras_text, head_mat>>

\* the subject and the two output directories; of a dict without records,
\* subject.values()[0] does not exist
ExtractStart ==
    /\ fn = "extract_anatomy" /\ pc = "start"
    /\ IF subject_kind = "other"
       THEN Raise("ValueError", FALSE) /\ UNCHANGED written
       ELSE IF subject_kind = "dict" /\ records = {}
       THEN Raise("IndexError", FALSE) /\ UNCHANGED written
       ELSE /\ pc' = "structural"
            /\ written' = {"anatomy_dir", "recordings_dir"}
            /\ UNCHANGED raised
    /\ UNCHANGED <<AnatInputs, ras_trans, hcp_trans, pnts, faces, head_mri_t>>

\* the extended structural archive and the RAS transform in it
ReadStructural ==
    /\ fn = "extract_anatomy" /\ pc = "structural"
    /\ IF REC_STRUCTURAL \in records
       THEN /\ written' = written \cup {"anatomy_files"}
            /\ IF n_ras = 0
               THEN Raise("ValueError", TRUE) /\ UNCHANGED ras_trans
               ELSE IF n_ras > 1
               THEN Raise("KeyError", FALSE) /\ UNCHANGED ras_trans
               ELSE LET r == ParseRas(ras_text) IN
                    IF r.err # "none"
                    THEN Raise(r.err, FALSE) /\ UNCHANGED ras_trans
                    ELSE /\ ras_trans' = [bound |-> TRUE, val |-> r.val]
                         /\ pc' = "meg"
                         /\ UNCHANGED raised
       ELSE \* the ValueError is built and dropped
            /\ pc' = "meg"
            /\ UNCHANGED <<written, raised, ras_trans>>
    /\ UNCHANGED <<AnatInputs, hcp_trans, pnts, faces, head_mri_t>>

\* the MEG anatomy archive and the transform table in it
ReadMegAnatomy ==
    /\ fn = "extract_anatomy" /\ pc = "meg"
    /\ IF REC_MEG \in records
       THEN LET r == _parse_hcp_trans(contents, EmptyDict, FALSE) IN
            /\ hcp_trans' = r.transforms
            /\ IF r.err # "none"
               THEN Raise(r.err, FALSE)
               ELSE pc' = "head_model" /\ UNCHANGED raised
       ELSE \* the ValueError is built and dropped
            /\ pc' = "returned"
            /\ UNCHANGED <<hcp_trans, raised>>
    /\ UNCHANGED <<AnatInputs, ras_trans, pnts, faces, head_mri_t, written>>

GetHeadModel ==
    /\ fn = "extract_anatomy" /\ pc = "head_model"
    /\ IF ~ras_trans.bound
       THEN Raise("UnboundLocalError", FALSE) /\ UNCHANGED <<pnts, faces>>
       ELSE IF K_bti2spm \notin DOMAIN hcp_trans
       THEN Raise("KeyError", FALSE) /\ UNCHANGED <<pnts, faces>>
       ELSE LET m == _get_head_model(head_mat, hcp_trans, ras_trans.val) IN
            /\ pnts' = m.pnts
            /\ faces' = m.faces
            /\ pc' = "combine"
            /\ UNCHANGED raised
    /\ UNCHANGED <<AnatInputs, ras_trans, hcp_trans, head_mri_t, written>>

\* bti2spm is the matrix object of the table: scaling it scales the entry
CombineTransforms ==
    /\ fn = "extract_anatomy" /\ pc = "combine"
    /\ LET ras_trans_m == ScaleTranslation(MatInv(ras_trans.val))
           bti2spm == ScaleTranslation(hcp_trans[K_bti2spm])
       IN /\ hcp_trans' = [hcp_trans EXCEPT ![K_bti2spm] = bti2spm]
          /\ head_mri_t' = [from |-> "ctf_head", to |-> "mri",
                            trans |-> MatDot(ras_trans_m, bti2spm)]
    /\ written' = written \cup {"inner_skull.surf"}
    /\ pc' = "write_trans"
    /\ UNCHANGED <<AnatInputs, raised, ras_trans, pnts, faces>>

WriteTrans ==
    /\ fn = "extract_anatomy" /\ pc = "write_trans"
    /\ written' = written \cup {"head_mri-trans.fif"}
    /\ pc' = "returned"
    /\ UNCHANGED <<AnatInputs, raised, ras_trans, hcp_trans, pnts, faces,
                   head_mri_t>>

Next ==
    \/ \E c \in BOOLEAN : ReadTransHcp(c)
    \/ ParseAnnotationsBadChannels
    \/ ParseAnnotationsSegments
    \/ ParseAnnotationsIca
    \/ ExtractStart
    \/ ReadStructural
    \/ ReadMegAnatomy
    \/ GetHeadModel
    \/ CombineTransforms
    \/ WriteTrans

Spec == Init /\ [][Next]_vars

(***************************************************************************)
(* Properties.                                                             *)
(***************************************************************************)
TransDone(c) == fn = "read_trans_hcp" /\ trans_ret[c].status # "pending"
AnnotDone == fn \in Annotators /\ annot_ret.status # "pending"
AnatDone == fn = "extract_anatomy" /\ pc \in {"returned", "raised"}

\* the text after the last '.' of a statement key
FinalSegment(key) ==
    LET dots == {j \in 1..Len(key) : key[j] = "."}
    IN IF dots = {} THEN key ELSE SubSeq(key, SetMax(dots) + 1, Len(key))

\* a file of one statement and nothing else
OneStmtFile(stmt, gap) == RenderFile(<<stmt>>, gap)

\* the archives the subject has are in order: one RAS transform in the
\* structural archive, a transform file with 'bti2spm' in the MEG archive
ArchivesInOrder ==
    /\ REC_STRUCTURAL \in records => n_ras = 1
    /\ REC_MEG \in records =>
          LET r == _parse_hcp_trans(contents, EmptyDict, FALSE)
          IN r.err = "none" /\ K_bti2spm \in DOMAIN r.transforms

\* C1: when the records of a subject lack the extended structural archive or
\* the MEG anatomy archive (and the archive it has is in order),
\* extract_anatomy ends in the missing-artifact error that names the
\* subject: it neither returns nor ends in another error.
C1_MissingArchiveRaises ==
    (/\ AnatDone
     /\ subject_kind \in {"str", "dict"}
     /\ records # {}
     /\ ArchivesInOrder
     /\ (REC_STRUCTURAL \notin records \/ REC_MEG \notin records))
    => (/\ pc = "raised"
        /\ raised.type = "ValueError"
        /\ raised.names_subject)

\* the generated transform files that hold no transform statement
NoTransformTexts ==
    {<<>>, <<"\n">>} \cup {OneStmtFile(FilenameStmt, g) : g \in Gaps}

\* C2: a text from which no transform is parsed, the empty file among them,
\* makes the transform parser fail with RuntimeError('Could not parse the
\* transforms.'), no other error and no empty table.
C2_NoTransformIsEmptyResult ==
    \A c \in BOOLEAN :
        (TransDone(c) /\ contents \in NoTransformTexts)
        => trans_ret[c].status = "RuntimeError"

\* the generated annotation files whose statements the parsers accept one
\* by one: what else they hold is blank or has no ' = '
SegmentsLinesTexts ==
    AnnotTexts(SegmentsKeys, [pairs : SegmentsLists, style : {"lines"}],
               RenderSegments)
CleanAnnotTexts ==
    CASE fn = "_parse_annotations_bad_channels" -> BadChannelsTexts
      [] fn = "_parse_annotations_segments" -> SegmentsLinesTexts
      [] fn = "_parse_annotations_ica" -> IcaTexts

\* C3: the three annotation parsers skip a fragment that is empty, blank or
\* has no ' = ' and do not raise: the empty file gives the empty mapping,
\* and a file that ends right after its last ';' is parsed.
C3_SkipsNonStatements ==
    (AnnotDone /\ contents \in CleanAnnotTexts)
    => (/\ annot_ret.status = "ok"
        /\ contents = <<>> => annot_ret.val = EmptyDict)

\* C4: a matrix literal of 16 numbers, one blank between the numbers of a row
\* and a newline between two rows, is parsed row-major: entry (i, j) of the
\* table's matrix is the (4 i + j)-th number of the literal.
C4_RowMajorAcrossLines ==
    \A m \in TransMatrices :
        (/\ TransDone(FALSE)
         /\ contents = OneStmtFile(RenderTransStmt(K_bti2spm, m, <<"\n">>),
                                   <<"\n">>))
        => (/\ trans_ret[FALSE].status = "ok"
            /\ K_bti2spm \in DOMAIN trans_ret[FALSE].val
            /\ \A i, j \in 1..4 :
                  trans_ret[FALSE].val[K_bti2spm][i][j] = m[i][j] * Scale)

\* C5: a text parsed with and without convert_to_meter succeeds in both or
\* in neither; the two tables have the same keys, the three translation
\* entries of the converted matrix are those of the unconverted one divided
\* by 1000, and the 13 other entries are equal.
C5_ConvertScalesTranslationOnly ==
    (TransDone(TRUE) /\ TransDone(FALSE))
    => (/\ trans_ret[TRUE].status = trans_ret[FALSE].status
        /\ DOMAIN trans_ret[TRUE].val = DOMAIN trans_ret[FALSE].val
        /\ \A k \in DOMAIN trans_ret[TRUE].val : \A i, j \in 1..4 :
              IF i <= 3 /\ j = 4
              THEN trans_ret[TRUE].val[k][i][j] * Scale
                   = trans_ret[FALSE].val[k][i][j] * MilliToMeter
              ELSE trans_ret[TRUE].val[k][i][j] = trans_ret[FALSE].val[k][i][j])

\* both parses succeeded on a file of two names, one with a translation
C5_Witness ==
    /\ TransDone(TRUE) /\ TransDone(FALSE)
    /\ trans_ret[TRUE].status = "ok"
    /\ Cardinality(DOMAIN trans_ret[FALSE].val) = 2
    /\ \E k \in DOMAIN trans_ret[FALSE].val :
          /\ trans_ret[FALSE].val[k][1][4] = 10 * Scale
          /\ trans_ret[TRUE].val[k][1][4] = 10

\* C6: the statement 'transform.<name> = <matrix>' puts the matrix in the
\* table under <name>, whatever the name.
C6_KeyIsName ==
    \A e \in TransEntries :
        (/\ TransDone(FALSE)
         /\ contents = OneStmtFile(RenderTransStmt(e[1], e[2], <<" ", "\n">>),
                                   <<"\n">>))
        => (/\ trans_ret[FALSE].status = "ok"
            /\ DOMAIN trans_ret[FALSE].val = {e[1]})

\* C7: a bracketed list of N pairs of 1-based integers, the pairs separated
\* by ';', is parsed to the N pairs of those integers minus 1, in order,
\* under the final segment of the key.
C7_SegmentsMinusOne ==
    \A pairs \in SegmentsLists : \A g \in Gaps :
        (/\ AnnotDone /\ fn = "_parse_annotations_segments"
         /\ contents = RenderAnnotFile(
                           SegmentsKeys,
                           <<[pairs |-> pairs, style |-> "semicolon"]>>,
                           RenderSegments, <<>>, g))
        => (/\ annot_ret.status = "ok"
            /\ annot_ret.val =
                  DictPut(EmptyDict, FinalSegment(SegmentsKeys[1]),
                          [i \in 1..Len(pairs) |->
                              <<pairs[i][1] - 1, pairs[i][2] - 1>>]))

\* C8: a bracketed list of component indices separated by blanks is parsed
\* to the list of all of them as integers, in order, the first and the last
\* included.
C8_IcaKeepsAllIndices ==
    \A items \in IcaLists : \A st \in IcaStyles : \A g \in Gaps :
        (/\ AnnotDone /\ fn = "_parse_annotations_ica"
         /\ contents = RenderAnnotFile(
                           IcaKeys,
                           <<[items |-> items, labels |-> <<>>, style |-> st]>>,
                           RenderIca, <<>>, g))
        => (/\ annot_ret.status = "ok"
            /\ annot_ret.val =
                  DictPut(EmptyDict, FinalSegment(IcaKeys[1]),
                          [i \in 1..Len(items) |-> IcaInt(items[i])]))

\* C9: a bracketed list of single-quoted channel names is parsed to the list
\* of those names, in order and with duplicates, under the final segment of
\* the key; so is the file "bads.badchannels = ['A1' 'A2'];".
C9_BadChannelsKeepsNames ==
    \A names \in BadChannelsValues : \A g \in Gaps :
        (/\ AnnotDone /\ fn = "_parse_annotations_bad_channels"
         /\ contents = RenderAnnotFile(BadChannelsKeys, <<names>>,
                                       RenderBadChannels, <<>>, g))
        => (/\ annot_ret.status = "ok"
            /\ annot_ret.val =
                  DictPut(EmptyDict, FinalSegment(BadChannelsKeys[1]), names))

\* C10: when extract_anatomy returns after it has built the transform table,
\* the table is as parsed: its matrix 'bti2spm' is the one the parser made
\* of the transform file.
C10_TableAsParsed ==
    (AnatDone /\ pc = "returned" /\ REC_MEG \in records)
    => hcp_trans = _parse_hcp_trans(contents, EmptyDict, FALSE).transforms

====
